---- MODULE Spec2Model ----
(***************************************************************************)
(* Model of the LineFollower node of b3rb_ros_line_follower.py.            *)
(*                                                                         *)
(* The node owns five fields (traffic_status, obstacle_detected,           *)
(* ramp_detected, speed_mult, prev_turn) and three subscription callbacks  *)
(* (edge_vectors_callback, traffic_status_callback, lidar_callback) that   *)
(* rclpy.spin dispatches one at a time.  edge_vectors_callback publishes   *)
(* one Joy message through rover_move_manual_mode.                         *)
(*                                                                         *)
(* Numbers.  The code computes in floats; the model computes the same      *)
(* expressions exactly, in fixed point:                                    *)
(*   - speed_mult, prev_turn and turn are integers counting 1/Unit;        *)
(*   - the axes of a Joy message are integers counting 1/AxisUnit, with    *)
(*     AxisUnit = 3 * Unit * Unit, the denominator of                      *)
(*     ((1.5 - turn) / 1.5) * speed_mult;                                  *)
(*   - lidar ranges are integers counting 1/THRESHOLD_OBSTACLE_VERTICAL    *)
(*     (eighths of a unit of distance).                                    *)
(* The messages the model delivers are those whose arithmetic is exact at  *)
(* this resolution (Exact); the rounding of IEEE doubles is not modelled.  *)
(***************************************************************************)
EXTENDS Integers, Sequences, FiniteSets

VARIABLES
    traffic_status,     \* self.traffic_status: [stop_sign : BOOLEAN]
    obstacle_detected,  \* self.obstacle_detected
    ramp_detected,      \* self.ramp_detected
    speed_mult,         \* self.speed_mult, in 1/Unit
    prev_turn,          \* self.prev_turn, in 1/Unit
    published,          \* the Joy messages the last callback published on /cerebri/in/joy
    handled,            \* the last callback run: [kind, message, raised]
    latest,             \* what the latest scan wrote to ramp_detected and
                        \* obstacle_detected, and the stop_sign of the latest
                        \* traffic status message
    spinning            \* rclpy.spin is still dispatching callbacks

vars == <<traffic_status, obstacle_detected, ramp_detected, speed_mult,
          prev_turn, published, handled, latest, spinning>>

----------------------------------------------------------------------------
(* Bounds of the model *)

\* binary digits speed_mult keeps below 1/100
Prec == 0
\* largest endpoint x-coordinate of an edge vector, in pixels
MaxCoord == 2
\* longest ranges array of a scan
MaxScanLen == 21

----------------------------------------------------------------------------
(* Module constants, lines 31-52 *)

Unit == 100 * (2 ^ Prec)
AxisUnit == 3 * Unit * Unit

TURN_MIN == 0
TURN_MAX == Unit
SPEED_MIN == 0
SPEED_MAX == AxisUnit
SPEED_25_PERCENT == SPEED_MAX \div 4
SPEED_50_PERCENT == SPEED_25_PERCENT * 2

THRESHOLD_OBSTACLE_VERTICAL == 8
THRESHOLD_OBSTACLE_HORIZONTAL == (THRESHOLD_OBSTACLE_VERTICAL \div 4) \div 2

SPEED_MULT_DEFAULT == Unit

MIN_POINTS_FOR_GROUND == 10
\* R_SQUARED_THRESHOLD = 0.9 as the fraction R_SQUARED_NUM / R_SQUARED_DEN
R_SQUARED_NUM == 9
R_SQUARED_DEN == 10

\* the literals of the adaptive update, lines 146-151
ESC_STEP == 3 * (2 ^ Prec)
ESC_MAX == (3 * Unit) \div 2
ESC_MIN == Unit \div 2

----------------------------------------------------------------------------
(* The node's fields as one record, so that a callback is a function of    *)
(* (self, message).                                                        *)

Self == [traffic_status    |-> traffic_status,
         obstacle_detected |-> obstacle_detected,
         ramp_detected     |-> ramp_detected,
         speed_mult        |-> speed_mult,
         prev_turn         |-> prev_turn]

\* __init__, lines 90-98
InitSelf == [traffic_status    |-> [stop_sign |-> FALSE],
             obstacle_detected |-> FALSE,
             ramp_detected     |-> FALSE,
             speed_mult        |-> SPEED_MULT_DEFAULT,
             prev_turn         |-> TURN_MIN]

\* rover_move_manual_mode with speed and turn on each other's axis
rover_move_manual_mode_swapped(speed, turn) ==
    [buttons |-> <<1, 0, 0, 0, 0, 0, 0, 1>>,
     axes    |-> <<0, turn, 0, speed>>]

\* rover_move_manual_mode, lines 111-118: the Joy message it publishes
rover_move_manual_mode(speed, turn) ==
    [buttons |-> <<1, 0, 0, 0, 0, 0, 0, 1>>,
     axes    |-> <<0, speed, 0, turn>>]

----------------------------------------------------------------------------
(* edge_vectors_callback, lines 131-183 *)

\* ESC with each guard one step further out: 1.53 and 0.47
ESCWithLooseGuards(self, turn) ==
    IF turn < self.prev_turn /\ self.speed_mult < ESC_MAX + ESC_STEP
        THEN self.speed_mult + ESC_STEP
    ELSE IF turn >= self.prev_turn /\ self.speed_mult > ESC_MIN - ESC_STEP
        THEN self.speed_mult - ESC_STEP
    ELSE self.speed_mult

\* lines 146-151: the adaptive update of speed_mult for a curve of this turn
ESC(self, turn) ==
    IF turn < self.prev_turn /\ self.speed_mult < ESC_MAX
        THEN self.speed_mult + ESC_STEP
    ELSE IF turn >= self.prev_turn /\ self.speed_mult > ESC_MIN
        THEN self.speed_mult - ESC_STEP
    ELSE self.speed_mult

\* lines 152-153: speed = (1.5 * TURN_MAX - turn) / (1.5 * TURN_MAX), times
\* speed_mult; in 1/AxisUnit this is (3 * TURN_MAX - 2 * turn) * speed_mult
CurveSpeed(turn, mult) == (3 * TURN_MAX - 2 * turn) * mult

\* a turn (1/Unit) as an axis value (1/AxisUnit)
AxisOf(turn) == turn * (AxisUnit \div Unit)

\* Curve with the speed scaled by speed_mult as it was before the update
CurveScaledByOldMult(self, message) ==
    LET deviation == message.vector_1[2] - message.vector_1[1]
    IN  IF message.image_width = 0
        THEN [raised |-> TRUE, speed |-> SPEED_MAX, turn |-> TURN_MIN,
              speed_mult |-> self.speed_mult, prev_turn |-> self.prev_turn]
        ELSE LET turn == (deviation * Unit) \div message.image_width
                 mult == ESC(self, turn)
             IN  [raised |-> FALSE,
                  speed |-> CurveSpeed(turn, self.speed_mult),
                  turn |-> turn, speed_mult |-> mult, prev_turn |-> turn]

\* lines 142-154, vector_count == 1; raises ZeroDivisionError at line 145
\* when image_width is 0, before any field is written
Curve(self, message) ==
    LET deviation == message.vector_1[2] - message.vector_1[1]
    IN  IF message.image_width = 0
        THEN [raised |-> TRUE, speed |-> SPEED_MAX, turn |-> TURN_MIN,
              speed_mult |-> self.speed_mult, prev_turn |-> self.prev_turn]
        ELSE LET turn == (deviation * Unit) \div message.image_width
                 mult == ESC(self, turn)
             IN  [raised |-> FALSE, speed |-> CurveSpeed(turn, mult),
                  turn |-> turn, speed_mult |-> mult, prev_turn |-> turn]

\* Straight with the speed scaled by the relaxed speed_mult, as a curve's is
StraightScaledByMult(self, message) ==
    LET half_width     == 2 * message.image_width
        middle_x_left  == 2 * (message.vector_1[1] + message.vector_1[2])
        middle_x_right == 2 * (message.vector_2[1] + message.vector_2[2])
        middle_x       == (middle_x_left + middle_x_right) \div 2
        deviation      == half_width - middle_x
        mult           == (SPEED_MULT_DEFAULT + self.speed_mult) \div 2
    IN  IF half_width = 0
        THEN [raised |-> TRUE, speed |-> SPEED_MAX, turn |-> TURN_MIN,
              speed_mult |-> self.speed_mult, prev_turn |-> self.prev_turn]
        ELSE [raised |-> FALSE, speed |-> CurveSpeed(TURN_MIN, mult),
              turn |-> (deviation * Unit) \div half_width,
              speed_mult |-> mult,
              prev_turn |-> TURN_MIN]

\* Straight putting speed_mult back at the default at once
StraightResettingMult(self, message) ==
    LET half_width     == 2 * message.image_width
        middle_x_left  == 2 * (message.vector_1[1] + message.vector_1[2])
        middle_x_right == 2 * (message.vector_2[1] + message.vector_2[2])
        middle_x       == (middle_x_left + middle_x_right) \div 2
        deviation      == half_width - middle_x
    IN  IF half_width = 0
        THEN [raised |-> TRUE, speed |-> SPEED_MAX, turn |-> TURN_MIN,
              speed_mult |-> self.speed_mult, prev_turn |-> self.prev_turn]
        ELSE [raised |-> FALSE, speed |-> SPEED_MAX,
              turn |-> (deviation * Unit) \div half_width,
              speed_mult |-> SPEED_MULT_DEFAULT,
              prev_turn |-> TURN_MIN]

\* Straight steering by the midpoint of vector_1 alone
StraightByLeftEdge(self, message) ==
    LET half_width     == 2 * message.image_width
        middle_x_left  == 2 * (message.vector_1[1] + message.vector_1[2])
        deviation      == half_width - middle_x_left
    IN  IF half_width = 0
        THEN [raised |-> TRUE, speed |-> SPEED_MAX, turn |-> TURN_MIN,
              speed_mult |-> self.speed_mult, prev_turn |-> self.prev_turn]
        ELSE [raised |-> FALSE, speed |-> SPEED_MAX,
              turn |-> (deviation * Unit) \div half_width,
              speed_mult |-> (SPEED_MULT_DEFAULT + self.speed_mult) \div 2,
              prev_turn |-> TURN_MIN]

\* lines 158-167, vector_count == 2, in quarter pixels; raises
\* ZeroDivisionError at line 164 when half_width is 0.0, before any field
\* is written
Straight(self, message) ==
    LET half_width     == 2 * message.image_width
        middle_x_left  == 2 * (message.vector_1[1] + message.vector_1[2])
        middle_x_right == 2 * (message.vector_2[1] + message.vector_2[2])
        middle_x       == (middle_x_left + middle_x_right) \div 2
        deviation      == half_width - middle_x
    IN  IF half_width = 0
        THEN [raised |-> TRUE, speed |-> SPEED_MAX, turn |-> TURN_MIN,
              speed_mult |-> self.speed_mult, prev_turn |-> self.prev_turn]
        ELSE [raised |-> FALSE, speed |-> SPEED_MAX,
              turn |-> (deviation * Unit) \div half_width,
              speed_mult |-> (SPEED_MULT_DEFAULT + self.speed_mult) \div 2,
              prev_turn |-> TURN_MIN]

\* Estimator with vector_count 0 and the other values resetting prev_turn,
\* as the straight branch does
EstimatorResettingOnNone(self, message) ==
    IF message.vector_count = 1 THEN Curve(self, message)
    ELSE IF message.vector_count = 2 THEN Straight(self, message)
    ELSE [raised |-> FALSE, speed |-> SPEED_MAX, turn |-> TURN_MIN,
          speed_mult |-> self.speed_mult, prev_turn |-> TURN_MIN]

\* lines 132-167: speed and turn before the overrides, and the new
\* speed_mult and prev_turn
Estimator(self, message) ==
    IF message.vector_count = 1 THEN Curve(self, message)
    ELSE IF message.vector_count = 2 THEN Straight(self, message)
    ELSE [raised |-> FALSE, speed |-> SPEED_MAX, turn |-> TURN_MIN,
          speed_mult |-> self.speed_mult, prev_turn |-> self.prev_turn]

\* Overrides with the stop-sign check moved last
OverridesStopLast(self, speed) ==
    LET s1 == IF self.ramp_detected THEN SPEED_50_PERCENT ELSE speed
        s2 == IF self.obstacle_detected THEN SPEED_25_PERCENT ELSE s1
        s3 == IF self.traffic_status.stop_sign THEN SPEED_MIN ELSE s2
    IN  s3

\* lines 169-181: three ifs in sequence, each reassigning speed
Overrides(self, speed) ==
    LET s1 == IF self.traffic_status.stop_sign THEN SPEED_MIN ELSE speed
        s2 == IF self.ramp_detected THEN SPEED_50_PERCENT ELSE s1
        s3 == IF self.obstacle_detected THEN SPEED_25_PERCENT ELSE s2
    IN  s3

\* edge_vectors_callback clearing obstacle_detected once it has slowed down
edge_vectors_callback_clearing_obstacle(self, message) ==
    LET e == Estimator(self, message)
    IN  IF e.raised
        THEN [self |-> self, published |-> <<>>, raised |-> TRUE]
        ELSE [self |-> [self EXCEPT !.speed_mult = e.speed_mult,
                                    !.prev_turn = e.prev_turn,
                                    !.obstacle_detected = FALSE],
              published |-> <<rover_move_manual_mode(
                                  Overrides(self, e.speed), AxisOf(e.turn))>>,
              raised |-> FALSE]

\* edge_vectors_callback returning at a stop sign before the estimator runs
edge_vectors_callback_stopping_early(self, message) ==
    LET e == Estimator(self, message)
    IN  IF self.traffic_status.stop_sign
        THEN [self |-> self,
              published |-> <<rover_move_manual_mode(
                                  Overrides(self, SPEED_MAX), AxisOf(TURN_MIN))>>,
              raised |-> FALSE]
        ELSE IF e.raised
        THEN [self |-> self, published |-> <<>>, raised |-> TRUE]
        ELSE [self |-> [self EXCEPT !.speed_mult = e.speed_mult,
                                    !.prev_turn = e.prev_turn],
              published |-> <<rover_move_manual_mode(
                                  Overrides(self, e.speed), AxisOf(e.turn))>>,
              raised |-> FALSE]

\* edge_vectors_callback rejecting image_width 0 with the neutral command
\* instead of dividing by it
edge_vectors_callback_defended(self, message) ==
    LET e == Estimator(self, message)
    IN  IF e.raised
        THEN [self |-> self,
              published |-> <<rover_move_manual_mode(
                                  Overrides(self, SPEED_MAX), AxisOf(TURN_MIN))>>,
              raised |-> FALSE]
        ELSE [self |-> [self EXCEPT !.speed_mult = e.speed_mult,
                                    !.prev_turn = e.prev_turn],
              published |-> <<rover_move_manual_mode(
                                  Overrides(self, e.speed), AxisOf(e.turn))>>,
              raised |-> FALSE]

\* lines 131-183: the fields after the callback, what it published, and
\* whether it raised
edge_vectors_callback(self, message) ==
    LET e == Estimator(self, message)
    IN  IF e.raised
        THEN [self |-> self, published |-> <<>>, raised |-> TRUE]
        ELSE [self |-> [self EXCEPT !.speed_mult = e.speed_mult,
                                    !.prev_turn = e.prev_turn],
              published |-> <<rover_move_manual_mode(
                                  Overrides(self, e.speed), AxisOf(e.turn))>>,
              raised |-> FALSE]

\* the float results of the callback are multiples of 1/Unit
Exact(self, message) ==
    /\ message.vector_count = 1 /\ message.image_width # 0
         => ((message.vector_1[2] - message.vector_1[1]) * Unit)
                % message.image_width = 0
    /\ message.vector_count = 2 /\ message.image_width # 0
         => /\ ((2 * message.image_width - message.vector_1[1]
                   - message.vector_1[2] - message.vector_2[1]
                   - message.vector_2[2]) * Unit)
                  % (2 * message.image_width) = 0
            /\ (SPEED_MULT_DEFAULT + self.speed_mult) % 2 = 0

----------------------------------------------------------------------------
(* traffic_status_callback, lines 193-194 *)

\* traffic_status_callback keeping a stop sign once seen
traffic_status_callback_latching(self, message) ==
    [self EXCEPT !.traffic_status =
        [stop_sign |-> self.traffic_status.stop_sign \/ message.stop_sign]]

traffic_status_callback(self, message) ==
    [self EXCEPT !.traffic_status = message]

----------------------------------------------------------------------------
(* lidar_callback, lines 205-258 *)

\* theta / math.pi for theta = math.atan(4 / 1), lines 207-209, to seven
\* places: 0.4220209
THETA_NUM == 4220209
THETA_DEN == 10000000

\* the Python slice s[a:b], for 0 <= a and 0 <= b
Slice(s, a, b) ==
    LET hi == IF b > Len(s) THEN Len(s) ELSE b
    IN  IF a >= hi THEN <<>> ELSE SubSeq(s, a + 1, hi)

\* ValidRanges keeping a reading equal to range_max
ValidRangesInclusive(message) ==
    LET Valid(r) == message.range_min <= r /\ r <= message.range_max
    IN  SelectSeq(message.ranges, Valid)

\* line 212: the readings within [range_min, range_max)
ValidRanges(message) ==
    LET Valid(r) == message.range_min <= r /\ r < message.range_max
    IN  SelectSeq(message.ranges, Valid)

\* MiddleHalf keeping the reading at index floor(3 * length / 4) as well
MiddleHalfInclusive(valid_ranges) ==
    LET length == Len(valid_ranges)
    IN  Slice(valid_ranges, length \div 4, (3 * length) \div 4 + 1)

\* lines 215-216: the middle half of the valid readings
MiddleHalf(valid_ranges) ==
    LET length == Len(valid_ranges)
    IN  Slice(valid_ranges, length \div 4, (3 * length) \div 4)

\* np.cos and np.sin of a whole number of quarter turns
Cos(quarters) ==
    CASE quarters % 4 = 0 -> 1
      [] quarters % 4 = 2 -> -1
      [] OTHER -> 0

Sin(quarters) ==
    CASE quarters % 4 = 1 -> 1
      [] quarters % 4 = 3 -> -1
      [] OTHER -> 0

\* lines 220-222: the point of reading i (from 0), with angle_increment a
\* whole number of quarter turns
PointX(ranges, angle_increment, i) == ranges[i + 1] * Cos(i * angle_increment)

PointY(ranges, angle_increment, i) == ranges[i + 1] * Sin(i * angle_increment)

RECURSIVE Sum(_, _)
\* np.sum of the first n entries of a
Sum(a, n) == IF n = 0 THEN 0 ELSE Sum(a, n - 1) + a[n]

RECURSIVE Dot(_, _, _)
\* the sum of the products of the first n entries of a and b
Dot(a, b, n) == IF n = 0 THEN 0 ELSE Dot(a, b, n - 1) + a[n] * b[n]

\* lines 224-227: LinearRegression().fit(x, y).score(x, y) > 0.9.
\* With n points, vx = n * sum(x^2) - sum(x)^2 (vy alike) and
\* c = n * sum(x*y) - sum(x) * sum(y):
\*   if vy = 0 the fit is exact and r2_score returns 1.0;
\*   if vx = 0 (and vy > 0) the fit is the mean of y and the score is 0.0;
\*   otherwise the score is c^2 / (vx * vy).
\* num * (vx*vy - c^2) < (den - num) * c^2 is compared without forming the
\* products.
GoodFit(ranges, angle_increment) ==
    LET n  == Len(ranges)
        x  == [i \in 1..n |-> PointX(ranges, angle_increment, i - 1)]
        y  == [i \in 1..n |-> PointY(ranges, angle_increment, i - 1)]
        vx == n * Dot(x, x, n) - Sum(x, n) * Sum(x, n)
        vy == n * Dot(y, y, n) - Sum(y, n) * Sum(y, n)
        c  == n * Dot(x, y, n) - Sum(x, n) * Sum(y, n)
    IN  IF vy = 0 THEN TRUE
        ELSE IF vx = 0 THEN FALSE
        ELSE (vx * vy - c * c)
               <= ((R_SQUARED_DEN - R_SQUARED_NUM) * (c * c) - 1)
                    \div R_SQUARED_NUM

\* lines 219-229
RampDetected(ranges, angle_increment) ==
    IF Len(ranges) >= MIN_POINTS_FOR_GROUND
    THEN GoodFit(ranges, angle_increment)
    ELSE FALSE

\* int(length * theta / math.pi), lines 234-235
RightEnd(length) == (length * THETA_NUM) \div THETA_DEN

\* int(length * (math.pi - theta) / math.pi), lines 234 and 236
LeftStart(length) == (length * (THETA_DEN - THETA_NUM)) \div THETA_DEN

\* line 234
front_ranges(ranges) ==
    Slice(ranges, RightEnd(Len(ranges)), LeftStart(Len(ranges)))

\* line 235
side_ranges_right(ranges) == Slice(ranges, 0, RightEnd(Len(ranges)))

\* line 236
side_ranges_left(ranges) ==
    Slice(ranges, LeftStart(Len(ranges)), Len(ranges))

\* line 248: list.reverse()
Reverse(s) == [i \in 1..Len(s) |-> s[Len(s) + 1 - i]]

RECURSIVE HitFrom(_, _, _)
\* the loops of lines 240-245 and 251-256 from index i on: TRUE when the
\* loop reaches a reading below the threshold and returns
HitFrom(s, threshold, i) ==
    IF i > Len(s) THEN FALSE
    ELSE IF s[i] < threshold THEN TRUE
    ELSE HitFrom(s, threshold, i + 1)

\* lines 239-245: the loop over the front readings returns at a hit
FrontHit(ranges) ==
    HitFrom(front_ranges(ranges), THRESHOLD_OBSTACLE_VERTICAL, 1)

\* lines 248-256: the left readings reversed, then the right readings
SideHit(ranges) ==
    \/ HitFrom(Reverse(side_ranges_left(ranges)),
               THRESHOLD_OBSTACLE_HORIZONTAL, 1)
    \/ HitFrom(side_ranges_right(ranges), THRESHOLD_OBSTACLE_HORIZONTAL, 1)

\* ObstacleDetected with the front threshold applied to the sides as well
ObstacleDetectedOneThreshold(ranges) ==
    \/ FrontHit(ranges)
    \/ HitFrom(Reverse(side_ranges_left(ranges)),
               THRESHOLD_OBSTACLE_VERTICAL, 1)
    \/ HitFrom(side_ranges_right(ranges), THRESHOLD_OBSTACLE_VERTICAL, 1)

\* lines 231-258
ObstacleDetected(ranges) ==
    IF FrontHit(ranges) THEN TRUE
    ELSE IF SideHit(ranges) THEN TRUE
    ELSE FALSE

\* lidar_callback without the else branch of line 228: ramp_detected is
\* left as it was when fewer than MIN_POINTS_FOR_GROUND readings remain
lidar_callback_without_else(self, message) ==
    LET ranges == MiddleHalf(ValidRanges(message))
    IN  [self EXCEPT
            !.ramp_detected =
                IF Len(ranges) >= MIN_POINTS_FOR_GROUND
                THEN GoodFit(ranges, message.angle_increment)
                ELSE self.ramp_detected,
            !.obstacle_detected = ObstacleDetected(ranges)]

\* lidar_callback without the clearing of lines 232 and 258:
\* obstacle_detected is only ever set
lidar_callback_latching_obstacle(self, message) ==
    LET ranges == MiddleHalf(ValidRanges(message))
    IN  [self EXCEPT
            !.ramp_detected = RampDetected(ranges, message.angle_increment),
            !.obstacle_detected =
                self.obstacle_detected \/ ObstacleDetected(ranges)]

\* lidar_callback looking for obstacles first: the return at an obstacle
\* leaves ramp_detected as it was
lidar_callback_obstacle_first(self, message) ==
    LET ranges == MiddleHalf(ValidRanges(message))
    IN  [self EXCEPT
            !.ramp_detected =
                IF ObstacleDetected(ranges)
                THEN self.ramp_detected
                ELSE RampDetected(ranges, message.angle_increment),
            !.obstacle_detected = ObstacleDetected(ranges)]

\* lines 205-258: the fields after the callback
lidar_callback(self, message) ==
    LET ranges == MiddleHalf(ValidRanges(message))
    IN  [self EXCEPT
            !.ramp_detected = RampDetected(ranges, message.angle_increment),
            !.obstacle_detected = ObstacleDetected(ranges)]

----------------------------------------------------------------------------
(* The messages delivered to the node *)

\* EdgeVectors.msg: the x of the two endpoints of vector_1 and vector_2
\* (the code reads no y).  The vectors beyond vector_count are zero, and
\* the two edges of a straight are vertical.
EdgeVectorsOf(counts, widths, coords) ==
    UNION {
      {[vector_count |-> n, image_width |-> w,
        vector_1 |-> <<0, 0>>, vector_2 |-> <<0, 0>>] :
          n \in counts \ {1, 2}, w \in widths},
      {[vector_count |-> 1, image_width |-> w,
        vector_1 |-> <<a, b>>, vector_2 |-> <<0, 0>>] :
          w \in widths, a \in coords, b \in coords},
      {[vector_count |-> 2, image_width |-> w,
        vector_1 |-> <<a, a>>, vector_2 |-> <<c, c>>] :
          w \in widths, a \in coords, c \in coords} }

\* straights whose two edges lean one pixel to the right
SlantedStraightsOf(widths, coords) ==
    {[vector_count |-> 2, image_width |-> w,
      vector_1 |-> <<a, a + 1>>, vector_2 |-> <<c, c + 1>>] :
        w \in widths, a \in coords, c \in coords}

\* the width in pixels of the images with leaning edges
SlantedWidth == 5

\* vector_count 3 stands for every value other than 0, 1 and 2; the images
\* are 2 pixels wide, or 0 pixels wide with every endpoint at 0, or
\* SlantedWidth pixels wide with leaning edges
EdgeMsgs ==
    EdgeVectorsOf(0..3, {2}, 0..MaxCoord)
        \cup EdgeVectorsOf(0..3, {0}, {0})
        \cup SlantedStraightsOf({SlantedWidth}, 0..MaxCoord)

\* image_width > 0 and every endpoint inside the image
WellFormed(message) ==
    /\ message.vector_count \in {0, 1, 2}
    /\ message.image_width > 0
    /\ \A i \in 1..2 :
         /\ message.vector_1[i] \in 0..message.image_width
         /\ message.vector_2[i] \in 0..message.image_width

TrafficMsgs == [stop_sign : BOOLEAN]

\* readings, in eighths: 1.5 (beyond both thresholds), and range_max = 2.0
Far == THRESHOLD_OBSTACLE_VERTICAL + THRESHOLD_OBSTACLE_VERTICAL \div 2
RangeMax == 2 * THRESHOLD_OBSTACLE_VERTICAL

\* 0.0, 0.125, 0.5, 1.0, 1.5 and 2.0: below, at and between the two
\* thresholds, and at range_max
Samples ==
    {0, THRESHOLD_OBSTACLE_HORIZONTAL, THRESHOLD_OBSTACLE_VERTICAL \div 2,
     THRESHOLD_OBSTACLE_VERTICAL, Far, RangeMax}

\* LaserScan: n readings of value background, reading probe_at (if within
\* 1..n) replaced by probe; angle_increment in quarter turns
Scan(n, background, probe_at, probe, range_min, angle_increment) ==
    [ranges |-> [i \in 1..n |-> IF i = probe_at THEN probe ELSE background],
     range_min |-> range_min,
     range_max |-> RangeMax,
     angle_increment |-> angle_increment]

\* the scans of the interleaved specification: an empty scan, and scans of
\* MaxScanLen readings, all far but one in the front sector
ScanMsgs ==
    {Scan(n, Far, MaxScanLen \div 2, v, 0, inc) :
        n \in {0, MaxScanLen},
        v \in {0, THRESHOLD_OBSTACLE_VERTICAL \div 2, Far},
        inc \in {0, 1}}

----------------------------------------------------------------------------
(* The node under rclpy.spin, line 266 *)

\* the scans of the scan-only specification: up to MaxScanLen readings of
\* one background value (0.5, 1.5, or range_max, which line 212 discards)
\* with one reading replaced by any sample
ScanFamily ==
    {Scan(n, b, p, v, m, inc) :
        n \in 0..MaxScanLen,
        b \in {THRESHOLD_OBSTACLE_VERTICAL \div 2, Far, RangeMax},
        p \in 1..MaxScanLen,
        v \in Samples, m \in {0, 1}, inc \in {0, 1}}

Store(self) ==
    /\ traffic_status' = self.traffic_status
    /\ obstacle_detected' = self.obstacle_detected
    /\ ramp_detected' = self.ramp_detected
    /\ speed_mult' = self.speed_mult
    /\ prev_turn' = self.prev_turn

\* __init__, lines 60-98, with the three flags as given
InitWith(stop_sign, ramp, obstacle) ==
    /\ traffic_status = [stop_sign |-> stop_sign]
    /\ obstacle_detected = obstacle
    /\ ramp_detected = ramp
    /\ speed_mult = InitSelf.speed_mult
    /\ prev_turn = InitSelf.prev_turn
    /\ published = <<>>
    /\ handled = [kind |-> "init"]
    /\ latest = [stop_sign |-> stop_sign, ramp_detected |-> ramp,
                 obstacle_detected |-> obstacle]
    /\ spinning = TRUE

Init ==
    InitWith(InitSelf.traffic_status.stop_sign, InitSelf.ramp_detected,
             InitSelf.obstacle_detected)

\* a message on /edge_vectors: an exception raised by the callback leaves
\* rclpy.spin and ends main, lines 261-272
EdgeVectors ==
    /\ spinning
    /\ \E message \in EdgeMsgs :
         /\ Exact(Self, message)
         /\ LET r == edge_vectors_callback(Self, message)
            IN  /\ Store(r.self)
                /\ published' = r.published
                /\ handled' = [kind |-> "edge_vectors", message |-> message,
                               raised |-> r.raised]
                /\ spinning' = ~r.raised
    /\ UNCHANGED latest

\* a message on /traffic_status
TrafficStatus ==
    /\ spinning
    /\ \E message \in TrafficMsgs :
         /\ Store(traffic_status_callback(Self, message))
         /\ published' = <<>>
         /\ handled' = [kind |-> "traffic_status", message |-> message,
                        raised |-> FALSE]
         /\ latest' = [latest EXCEPT !.stop_sign = message.stop_sign]
    /\ UNCHANGED spinning

LidarOf(scans) ==
    /\ spinning
    /\ \E message \in scans :
         /\ Store(lidar_callback(Self, message))
         /\ published' = <<>>
         /\ handled' = [kind |-> "scan", message |-> message,
                        raised |-> FALSE]
    /\ latest' = [latest EXCEPT !.ramp_detected = ramp_detected',
                                !.obstacle_detected = obstacle_detected']
    /\ UNCHANGED spinning

\* a message on /scan
Lidar == LidarOf(ScanMsgs)

Next == EdgeVectors \/ TrafficStatus \/ Lidar

\* the three subscriptions in any interleaving
Spec == Init /\ [][Next]_vars

\* the flags of a node that has received scans and traffic status but no
\* edge vectors yet
InitFlags ==
    \E stop_sign \in BOOLEAN, ramp \in BOOLEAN, obstacle \in BOOLEAN :
        InitWith(stop_sign, ramp, obstacle)

\* messages on /edge_vectors only
SpecEdge == InitFlags /\ [][EdgeVectors]_vars

\* one message on /scan, from ScanFamily
LidarOnce == handled.kind = "init" /\ LidarOf(ScanFamily)

SpecScan == InitFlags /\ [][LidarOnce]_vars

----------------------------------------------------------------------------
(* Properties *)

\* the last callback was edge_vectors_callback and it returned
EdgeDone == handled.kind = "edge_vectors" /\ ~handled.raised

\* the last callback was lidar_callback
ScanDone == handled.kind = "scan"

\* the speed of the last edge-vector decision before the overrides, read
\* from the fields it left: ((1.5 - turn) / 1.5) * speed_mult for a curve,
\* whose turn is now prev_turn, and the maximum otherwise
DecidedSpeed ==
    IF handled.message.vector_count = 1
    THEN (3 * Unit - 2 * prev_turn) * speed_mult
    ELSE AxisUnit

\* C1: from the initial state, after any sequence of edge-vector updates,
\* speed_mult never exceeds 1.5 and never drops below 0.5.
C1_SpeedMultWithinHalfAndOneAndAHalf ==
    /\ 2 * speed_mult >= Unit
    /\ 2 * speed_mult <= 3 * Unit

\* C2: every command emitted for a well-formed edge-vector message has
\* speed in [-1, 1] and turn in [-1, 1].
C2_CommandWithinUnitRange ==
    (EdgeDone /\ WellFormed(handled.message))
        => /\ published[1].axes[2] >= -AxisUnit
           /\ published[1].axes[2] <= AxisUnit
           /\ published[1].axes[4] >= -AxisUnit
           /\ published[1].axes[4] <= AxisUnit

\* the turn of every command emitted for a well-formed message is in [-1, 1]
C2_TurnWithinUnitRange ==
    (EdgeDone /\ WellFormed(handled.message))
        => /\ published[1].axes[4] >= -AxisUnit
           /\ published[1].axes[4] <= AxisUnit

\* C3: the emitted speed is 0.25 if obstacle_detected, otherwise 0.5 if
\* ramp_detected, otherwise 0 if stop_sign, otherwise the estimator's speed.
C3_LaterOverrideWins ==
    EdgeDone =>
        published[1].axes[2] =
            IF obstacle_detected THEN AxisUnit \div 4
            ELSE IF ramp_detected THEN AxisUnit \div 2
            ELSE IF traffic_status.stop_sign THEN 0
            ELSE DecidedSpeed

\* a curve decided with stop sign, ramp and obstacle all set: speed 0.25
C3_AllThreeSet ==
    /\ EdgeDone
    /\ handled.message.vector_count = 1
    /\ traffic_status.stop_sign /\ ramp_detected /\ obstacle_detected
    /\ published[1].axes[2] = AxisUnit \div 4
    /\ DecidedSpeed # AxisUnit \div 4

\* the node's fields with the three flags cleared
FlagsCleared ==
    [Self EXCEPT !.traffic_status = [stop_sign |-> FALSE],
                 !.ramp_detected = FALSE,
                 !.obstacle_detected = FALSE]

\* C4: the edge-vector handler emits the same turn and leaves the same
\* speed_mult and prev_turn as it does on the same message, speed_mult and
\* prev_turn with the three flags false; so any two runs that differ only
\* in the flags agree on them.
C4_FlagsInfluenceOnlySpeed ==
    [][handled'.kind = "edge_vectors" =>
         LET r == edge_vectors_callback(FlagsCleared, handled'.message)
         IN  /\ r.raised = handled'.raised
             /\ r.self.speed_mult = speed_mult'
             /\ r.self.prev_turn = prev_turn'
             /\ Len(r.published) = Len(published')
             /\ ~r.raised =>
                  r.published[1].axes[4] = published'[1].axes[4]]_vars

\* a curve decided while the speed is overridden by all three flags, with
\* speed_mult and prev_turn updated all the same
C4_UpdatedWhileOverridden ==
    /\ EdgeDone
    /\ handled.message.vector_count = 1
    /\ traffic_status.stop_sign /\ ramp_detected /\ obstacle_detected
    /\ speed_mult = SPEED_MULT_DEFAULT + ESC_STEP
    /\ prev_turn = -TURN_MAX
    /\ published[1].axes[4] = -AxisUnit

\* C5: for vector_count 0 or any value other than 1 and 2 the turn is 0.0,
\* the speed before the overrides is 1.0, and speed_mult and prev_turn are
\* left unchanged.
C5_NoVectorsIsNeutral ==
    [][(handled'.kind = "edge_vectors"
          /\ handled'.message.vector_count \notin {1, 2}) =>
         /\ ~handled'.raised
         /\ Len(published') = 1
         /\ published'[1].axes[4] = 0
         /\ Estimator(Self, handled'.message).speed = AxisUnit
         /\ (~traffic_status.stop_sign /\ ~ramp_detected /\ ~obstacle_detected)
              => published'[1].axes[2] = AxisUnit
         /\ speed_mult' = speed_mult
         /\ prev_turn' = prev_turn]_vars

\* vector_count 3 handled after a curve: full speed, no turn, and the
\* curve's speed_mult and prev_turn still in place
C5_UnrecognisedCountAfterCurve ==
    /\ EdgeDone
    /\ handled.message.vector_count = 3
    /\ published[1].axes = <<0, AxisUnit, 0, 0>>
    /\ speed_mult = SPEED_MULT_DEFAULT - ESC_STEP
    /\ prev_turn = TURN_MAX

\* the turn of the last edge-vector decision as an axis value, read from
\* the message and the fields it left: prev_turn for a curve, the offset of
\* the mean endpoint from the image centre over half the width for a
\* straight, 0 otherwise
DecidedTurn ==
    LET m == handled.message
    IN  IF m.vector_count = 1 THEN prev_turn * 3 * Unit
        ELSE IF m.vector_count = 2
        THEN ((2 * m.image_width - m.vector_1[1] - m.vector_1[2]
                 - m.vector_2[1] - m.vector_2[2]) * AxisUnit)
                \div (2 * m.image_width)
        ELSE 0

\* the speed a decision emits when the three flags have these values
SpeedUnder(stop_sign, ramp, obstacle) ==
    IF obstacle THEN AxisUnit \div 4
    ELSE IF ramp THEN AxisUnit \div 2
    ELSE IF stop_sign THEN 0
    ELSE DecidedSpeed

\* C6: exactly one command is emitted per handled edge-vector update, with
\* buttons [1,0,0,0,0,0,0,1] and axes [0, speed, 0, turn] of that decision,
\* and none by a scan or a traffic-status update.
C6_OneCommandPerEdgeUpdate ==
    /\ EdgeDone =>
         /\ Len(published) = 1
         /\ published[1].buttons = <<1, 0, 0, 0, 0, 0, 0, 1>>
         /\ published[1].axes =
              <<0, SpeedUnder(traffic_status.stop_sign, ramp_detected,
                              obstacle_detected), 0, DecidedTurn>>
    /\ handled.kind \in {"scan", "traffic_status"} => published = <<>>

\* a curve decided after a stop sign was reported: one command, speed 0,
\* turn -0.5
C6_CommandAfterStopSign ==
    /\ EdgeDone
    /\ handled.message.vector_count = 1
    /\ traffic_status.stop_sign /\ ~ramp_detected /\ ~obstacle_detected
    /\ Len(published) = 1
    /\ published[1].axes = <<0, 0, 0, -(AxisUnit \div 2)>>

\* C7: the three flags always hold what the most recent scan wrote and the
\* stop_sign of the most recent traffic-status message (false before any),
\* and an edge-vector decision uses exactly those values.
C7_DecisionUsesLatestUpdates ==
    /\ ramp_detected = latest.ramp_detected
    /\ obstacle_detected = latest.obstacle_detected
    /\ traffic_status.stop_sign = latest.stop_sign
    /\ EdgeDone =>
         published[1].axes[2] =
             SpeedUnder(latest.stop_sign, latest.ramp_detected,
                        latest.obstacle_detected)

\* a decision taken after a traffic-status message with a stop sign and a
\* scan that found a ramp and no obstacle: speed 0.5
C7_DecisionAfterScanAndStatus ==
    /\ EdgeDone
    /\ latest = [stop_sign |-> TRUE, ramp_detected |-> TRUE,
                 obstacle_detected |-> FALSE]
    /\ published[1].axes[2] = AxisUnit \div 2

\* C8: an edge-vector update leaves the three flags unchanged, a
\* traffic-status update leaves the hazard flags, speed_mult and prev_turn
\* unchanged, and a scan update leaves stop_sign, speed_mult and prev_turn
\* unchanged; so while obstacle_detected is true and no scan arrives, it
\* stays true and every command has speed 0.25.
C8_FlagsChangeOnlyInTheirHandler ==
    [][/\ handled'.kind = "edge_vectors" =>
            /\ traffic_status' = traffic_status
            /\ ramp_detected' = ramp_detected
            /\ obstacle_detected' = obstacle_detected
       /\ handled'.kind = "traffic_status" =>
            /\ ramp_detected' = ramp_detected
            /\ obstacle_detected' = obstacle_detected
            /\ speed_mult' = speed_mult
            /\ prev_turn' = prev_turn
       /\ handled'.kind = "scan" =>
            /\ traffic_status' = traffic_status
            /\ speed_mult' = speed_mult
            /\ prev_turn' = prev_turn
       /\ (obstacle_detected /\ handled'.kind # "scan") =>
            /\ obstacle_detected'
            /\ (handled'.kind = "edge_vectors" /\ ~handled'.raised)
                 => published'[1].axes[2] = AxisUnit \div 4]_vars

\* a curve decided with a stale obstacle flag: speed 0.25 and the flag still
\* set, with speed_mult and prev_turn moved by the curve
C8_SlowedByStaleObstacle ==
    /\ EdgeDone
    /\ handled.message.vector_count = 1
    /\ obstacle_detected
    /\ published[1].axes[2] = AxisUnit \div 4
    /\ speed_mult # SPEED_MULT_DEFAULT
    /\ prev_turn # TURN_MIN

\* the number of readings of the last scan within [range_min, range_max)
ValidCount ==
    LET m == handled.message
    IN  Cardinality({i \in 1..Len(m.ranges) :
                        m.range_min <= m.ranges[i]
                            /\ m.ranges[i] < m.range_max})

\* the number of readings in the middle half of ValidCount readings
KeptCount == (3 * ValidCount) \div 4 - ValidCount \div 4

\* C9: after a scan whose preprocessed sequence has fewer than 10 points,
\* in particular one with fewer than 10 valid readings, ramp_detected is
\* false whatever it was before.
C9_FewPointsNoRamp ==
    (ScanDone /\ (KeptCount < 10 \/ ValidCount < 10)) => ~ramp_detected

\* a scan at angle_increment 0 with 18 valid readings of which 9 are kept:
\* one more and the fit would be exact, and ramp_detected is false
C9_NinePointsKept ==
    /\ ScanDone
    /\ handled.message.angle_increment = 0
    /\ ValidCount = 18
    /\ KeptCount = 9
    /\ ~ramp_detected

\* the preprocessed readings of the last scan, and the indices of its front
\* and side sectors
Kept == MiddleHalf(ValidRanges(handled.message))

FrontSector ==
    {i \in 1..Len(Kept) : RightEnd(Len(Kept)) < i /\ i <= LeftStart(Len(Kept))}

SideSectors == (1..Len(Kept)) \ FrontSector

\* C10: after a scan, obstacle_detected is true exactly when some front
\* reading is below 1.0 or some left or right reading is below 0.125.
C10_ObstacleIffBelowThreshold ==
    ScanDone =>
        (obstacle_detected <=>
            \/ \E i \in FrontSector : Kept[i] < THRESHOLD_OBSTACLE_VERTICAL
            \/ \E i \in SideSectors : Kept[i] < THRESHOLD_OBSTACLE_HORIZONTAL)

\* a scan with a side reading of 0.5, between the two thresholds, and a
\* non-empty front sector: no obstacle
C10_SideReadingBetweenThresholds ==
    /\ ScanDone
    /\ FrontSector # {}
    /\ \E i \in SideSectors :
         /\ Kept[i] >= THRESHOLD_OBSTACLE_HORIZONTAL
         /\ Kept[i] < THRESHOLD_OBSTACLE_VERTICAL
    /\ ~obstacle_detected

\* a scan with a front reading of 0.5 and every side reading at 1.5: obstacle
C10_FrontReadingBelowThreshold ==
    /\ ScanDone
    /\ \E i \in FrontSector : Kept[i] < THRESHOLD_OBSTACLE_VERTICAL
    /\ \A i \in SideSectors : Kept[i] = Far
    /\ obstacle_detected

\* C11: a scan with no valid reading (empty ranges, or every reading outside
\* [range_min, range_max)) is handled without an exception and leaves
\* ramp_detected and obstacle_detected false, whatever they were before.
C11_NoValidReadingClearsBoth ==
    (ScanDone /\ ValidCount = 0)
        => /\ ~handled.raised
           /\ spinning
           /\ ~ramp_detected
           /\ ~obstacle_detected

\* a scan of ten or more readings, all at range_max: none is valid and both
\* flags are false
C11_AllReadingsAtRangeMax ==
    /\ ScanDone
    /\ Len(handled.message.ranges) >= MIN_POINTS_FOR_GROUND
    /\ \A i \in 1..Len(handled.message.ranges) :
         handled.message.ranges[i] = handled.message.range_max
    /\ ValidCount = 0
    /\ ~ramp_detected /\ ~obstacle_detected

\* an empty scan: both flags are false
C11_EmptyScan ==
    /\ ScanDone
    /\ handled.message.ranges = <<>>
    /\ ~ramp_detected /\ ~obstacle_detected

\* C12: an edge-vector update with image_width 0 and vector_count 1 or 2
\* raises the division error: nothing is published and speed_mult, prev_turn
\* and the three flags are as before; with image_width 0 and vector_count 0
\* nothing is raised and the neutral command is published.
C12_ZeroWidthRaisesBeforeAnyWrite ==
    [][(handled'.kind = "edge_vectors"
          /\ handled'.message.image_width = 0) =>
         /\ handled'.message.vector_count \in {1, 2} =>
              /\ handled'.raised
              /\ ~spinning'
              /\ published' = <<>>
              /\ speed_mult' = speed_mult
              /\ prev_turn' = prev_turn
              /\ traffic_status' = traffic_status
              /\ ramp_detected' = ramp_detected
              /\ obstacle_detected' = obstacle_detected
         /\ handled'.message.vector_count = 0 =>
              /\ ~handled'.raised
              /\ spinning'
              /\ Len(published') = 1
              /\ published'[1].axes =
                   <<0,
                     IF obstacle_detected THEN AxisUnit \div 4
                     ELSE IF ramp_detected THEN AxisUnit \div 2
                     ELSE IF traffic_status.stop_sign THEN 0
                     ELSE AxisUnit,
                     0, 0>>]_vars

\* a straight with image_width 0 raised after curves had moved speed_mult
\* and prev_turn: both still hold the curves' values and nothing is published
C12_RaisedAfterCurves ==
    /\ handled.kind = "edge_vectors"
    /\ handled.raised
    /\ handled.message.vector_count = 2
    /\ handled.message.image_width = 0
    /\ published = <<>>
    /\ speed_mult = SPEED_MULT_DEFAULT - 2 * ESC_STEP
    /\ prev_turn = TURN_MAX
    /\ ~spinning

\* vector_count 0 with image_width 0: the neutral command at full speed
C12_NoVectorsZeroWidth ==
    /\ EdgeDone
    /\ handled.message.vector_count = 0
    /\ handled.message.image_width = 0
    /\ published[1].axes = <<0, AxisUnit, 0, 0>>

\* the magnitude of a turn
Magnitude(turn) == IF turn < 0 THEN -turn ELSE turn

\* C13: in a single-curve update whose turn has a larger magnitude than
\* prev_turn (a sharpening turn, to either side) speed_mult does not
\* increase, and in one whose turn has a smaller magnitude than prev_turn
\* speed_mult does not decrease.
C13_BrakesOnSharpeningTurns ==
    [][(handled'.kind = "edge_vectors" /\ ~handled'.raised
          /\ handled'.message.vector_count = 1) =>
         /\ Magnitude(prev_turn') > Magnitude(prev_turn)
              => speed_mult' <= speed_mult
         /\ Magnitude(prev_turn') < Magnitude(prev_turn)
              => speed_mult' >= speed_mult]_vars

\* the same for turns to the left only (turn and prev_turn not negative),
\* where the signed comparison of line 146 compares magnitudes
C13_BrakesOnSharpeningLeftTurns ==
    [][(handled'.kind = "edge_vectors" /\ ~handled'.raised
          /\ handled'.message.vector_count = 1
          /\ prev_turn >= 0 /\ prev_turn' >= 0) =>
         /\ prev_turn' > prev_turn => speed_mult' <= speed_mult
         /\ prev_turn' < prev_turn => speed_mult' >= speed_mult]_vars

\* C14: for a vector_count 2 update with image_width > 0 the emitted turn is
\* (image_width/2 - average midpoint x) / (image_width/2), and it is 0 when
\* the average of the two midpoints is image_width / 2.
C14_StraightTurnIsCentreOffset ==
    (EdgeDone /\ handled.message.vector_count = 2) =>
        LET m      == handled.message
            total  == m.vector_1[1] + m.vector_1[2]
                        + m.vector_2[1] + m.vector_2[2]
        IN  /\ m.image_width > 0
            /\ published[1].axes[4] * (2 * m.image_width)
                 = (2 * m.image_width - total) * AxisUnit
            /\ total = 2 * m.image_width => published[1].axes[4] = 0

\* two different edges whose midpoints average to the image centre: turn 0
C14_SymmetricPairs ==
    /\ EdgeDone
    /\ handled.message.vector_count = 2
    /\ handled.message.vector_1 # handled.message.vector_2
    /\ handled.message.vector_1[1] + handled.message.vector_1[2]
         + handled.message.vector_2[1] + handled.message.vector_2[2]
         = 2 * handled.message.image_width
    /\ published[1].axes[4] = 0

\* two leaning edges left of the centre: a turn to the left of 0.6
C14_LeaningPairsLeftOfCentre ==
    /\ EdgeDone
    /\ handled.message.vector_count = 2
    /\ handled.message.vector_1[1] # handled.message.vector_1[2]
    /\ 5 * published[1].axes[4] = 3 * AxisUnit

\* C15: for a vector_count 2 update with stop_sign, ramp_detected and
\* obstacle_detected all false the emitted axes are [0, speed, 0, turn] with
\* speed 1.0 whatever speed_mult is, and turn the computed deviation.
C15_StraightAtFullSpeed ==
    (/\ EdgeDone
     /\ handled.message.vector_count = 2
     /\ ~traffic_status.stop_sign /\ ~ramp_detected /\ ~obstacle_detected) =>
        LET m      == handled.message
            total  == m.vector_1[1] + m.vector_1[2]
                        + m.vector_2[1] + m.vector_2[2]
            axes   == published[1].axes
        IN  /\ Len(published) = 1
            /\ Len(axes) = 4
            /\ axes[1] = 0
            /\ axes[2] = AxisUnit
            /\ axes[3] = 0
            /\ axes[4] * (2 * m.image_width)
                 = (2 * m.image_width - total) * AxisUnit

\* a straight with turn 0.2 and no flag set, taken while speed_mult was
\* away from 1.0 (it still is after the update): axes [0, 1.0, 0, 0.2]
C15_TurnOneFifthOffDefault ==
    /\ EdgeDone
    /\ handled.message.vector_count = 2
    /\ ~traffic_status.stop_sign /\ ~ramp_detected /\ ~obstacle_detected
    /\ speed_mult > SPEED_MULT_DEFAULT
    /\ 5 * published[1].axes[4] = AxisUnit
    /\ published[1].axes[2] = AxisUnit

\* C16: in a single-curve update turn = (x2 - x1) / image_width; if
\* turn < prev_turn and speed_mult < 1.5 then speed_mult increases by 0.03,
\* else if turn >= prev_turn and speed_mult > 0.5 it decreases by 0.03,
\* otherwise it is unchanged; the speed before the overrides is
\* ((1.5 - turn) / 1.5) times the updated speed_mult, and afterwards
\* prev_turn = turn.
C16_CurveUpdate ==
    [][(handled'.kind = "edge_vectors" /\ ~handled'.raised
          /\ handled'.message.vector_count = 1) =>
         LET m    == handled'.message
             turn == prev_turn'
         IN  /\ turn * m.image_width
                  = (m.vector_1[2] - m.vector_1[1]) * Unit
             /\ 100 * (speed_mult' - speed_mult) =
                  IF turn < prev_turn /\ 2 * speed_mult < 3 * Unit
                      THEN 3 * Unit
                  ELSE IF turn >= prev_turn /\ 2 * speed_mult > Unit
                      THEN -(3 * Unit)
                  ELSE 0
             /\ published'[1].axes[4] * Unit = turn * AxisUnit
             /\ (~traffic_status.stop_sign /\ ~ramp_detected
                   /\ ~obstacle_detected)
                  => published'[1].axes[2]
                       = (3 * Unit - 2 * turn) * speed_mult']_vars

\* a curve to the right taken from the initial multiplier with no flag set:
\* turn -0.5 < prev_turn, speed_mult 1.03, speed (2.0 / 1.5) * 1.03
C16_AcceleratedCurve ==
    /\ EdgeDone
    /\ handled.message.vector_count = 1
    /\ ~traffic_status.stop_sign /\ ~ramp_detected /\ ~obstacle_detected
    /\ 2 * prev_turn = -Unit
    /\ 100 * speed_mult = 103 * Unit
    /\ published[1].axes[2] = 4 * Unit * speed_mult

\* a curve taken with speed_mult at 1.51, above the upper guard
C16_AboveUpperGuard ==
    /\ EdgeDone
    /\ handled.message.vector_count = 1
    /\ 2 * speed_mult > 3 * Unit

\* C17: a vector_count 2 update sets speed_mult to (1.0 + speed_mult) / 2
\* and prev_turn to 0.0: the distance of speed_mult from 1.0 is halved, it
\* stays on the same side of 1.0, and the first single-curve update after a
\* straight compares its turn against 0.0.
C17_StraightRelaxesTowardsDefault ==
    [][/\ (handled'.kind = "edge_vectors" /\ ~handled'.raised
             /\ handled'.message.vector_count = 2) =>
            /\ 2 * speed_mult' = Unit + speed_mult
            /\ prev_turn' = 0
            /\ 2 * Magnitude(speed_mult' - Unit) = Magnitude(speed_mult - Unit)
            /\ speed_mult >= Unit => speed_mult' >= Unit
            /\ speed_mult <= Unit => speed_mult' <= Unit
       /\ (/\ EdgeDone /\ handled.message.vector_count = 2
           /\ handled'.kind = "edge_vectors" /\ ~handled'.raised
           /\ handled'.message.vector_count = 1) =>
            100 * (speed_mult' - speed_mult) =
                IF prev_turn' < 0 /\ 2 * speed_mult < 3 * Unit
                    THEN 3 * Unit
                ELSE IF prev_turn' >= 0 /\ 2 * speed_mult > Unit
                    THEN -(3 * Unit)
                ELSE 0]_vars

\* a straight taken at speed_mult 1.06: it is 1.03 afterwards, prev_turn 0.0
C17_HalfwayBackFromTwoSteps ==
    /\ EdgeDone
    /\ handled.message.vector_count = 2
    /\ 100 * speed_mult = 103 * Unit
    /\ prev_turn = 0

\* a straight taken at speed_mult 0.94: it is 0.97 afterwards
C17_HalfwayBackFromBelow ==
    /\ EdgeDone
    /\ handled.message.vector_count = 2
    /\ 100 * speed_mult = 97 * Unit
    /\ prev_turn = 0

\* the indices of the readings of the last scan within
\* [range_min, range_max), and the index of the k-th of them
ValidAt ==
    LET m == handled.message
    IN  {i \in 1..Len(m.ranges) :
            m.range_min <= m.ranges[i] /\ m.ranges[i] < m.range_max}

NthValid(k) ==
    CHOOSE i \in ValidAt : Cardinality({j \in ValidAt : j <= i}) = k

\* C18: the preprocessed sequence is, of the L readings r with
\* range_min <= r < range_max taken in their original order, the slice from
\* index floor(L/4) up to but not including floor(3L/4); it is never longer
\* than the input and is empty when L <= 1.
C18_MiddleHalfOfValidReadings ==
    ScanDone =>
        LET L  == Cardinality(ValidAt)
            lo == L \div 4
            hi == (3 * L) \div 4
        IN  /\ Len(Kept) = hi - lo
            /\ \A k \in 1..(hi - lo) :
                 Kept[k] = handled.message.ranges[NthValid(lo + k)]
            /\ Len(Kept) <= Len(handled.message.ranges)
            /\ L <= 1 => Kept = <<>>

\* a scan with a reading discarded ahead of the slice: the slice of ten or
\* more readings starts one reading later in the input
C18_KeptAfterDiscarded ==
    /\ ScanDone
    /\ Cardinality(ValidAt) = Len(handled.message.ranges) - 1
    /\ Len(Kept) >= MIN_POINTS_FOR_GROUND
    /\ NthValid(Cardinality(ValidAt) \div 4 + 1)
         = Cardinality(ValidAt) \div 4 + 2

\* a scan whose slice holds a smaller reading ahead of a larger one and a
\* larger one ahead of a smaller one
C18_OrderKept ==
    /\ ScanDone
    /\ \E i \in 1..Len(Kept) : \E j \in 1..Len(Kept) :
         i < j /\ Kept[i] < Kept[j]
    /\ \E i \in 1..Len(Kept) : \E j \in 1..Len(Kept) :
         i < j /\ Kept[i] > Kept[j]

\* a scan with exactly one valid reading: nothing is kept
C18_SingleValidReading ==
    /\ ScanDone
    /\ Cardinality(ValidAt) = 1
    /\ Kept = <<>>

\* C19: after a scan update ramp_detected and obstacle_detected are what the
\* scan handler computes from that message with the flags cleared, whatever
\* the node's state was before; so a scan in which an obstacle is found
\* still updates ramp_detected, and a scan with every kept reading at or
\* beyond 1.0 clears obstacle_detected.
C19_ScanHandlerIsMemoryless ==
    [][handled'.kind = "scan" =>
         LET r     == lidar_callback(FlagsCleared, handled'.message)
             kept  == MiddleHalf(ValidRanges(handled'.message))
         IN  /\ ramp_detected' = r.ramp_detected
             /\ obstacle_detected' = r.obstacle_detected
             /\ (\A i \in 1..Len(kept) :
                    kept[i] >= THRESHOLD_OBSTACLE_VERTICAL)
                  => ~obstacle_detected'
             /\ Len(kept) < MIN_POINTS_FOR_GROUND => ~ramp_detected']_vars

\* a scan in which a front reading below 1.0 ends the handler early and
\* whose ten kept points lie on a line: both flags are set
C19_RampUpdatedBeforeEarlyReturn ==
    /\ ScanDone
    /\ \E i \in FrontSector : Kept[i] < THRESHOLD_OBSTACLE_VERTICAL
    /\ Len(Kept) >= MIN_POINTS_FOR_GROUND
    /\ handled.message.angle_increment = 0
    /\ obstacle_detected
    /\ ramp_detected

\* a scan with an obstacle in front and kept points off any line: the
\* obstacle flag is set and the ramp flag is not
C19_ObstacleWithoutRamp ==
    /\ ScanDone
    /\ \E i \in FrontSector : Kept[i] < THRESHOLD_OBSTACLE_VERTICAL
    /\ Len(Kept) >= MIN_POINTS_FOR_GROUND
    /\ obstacle_detected
    /\ ~ramp_detected

\* C20: after any sequence of edge-vector updates from the initial state
\* speed_mult is strictly between 0.47 and 1.53, hence positive, and for
\* well-formed messages every emitted speed is non-negative.
C20_NeverCommandedToReverse ==
    /\ 100 * speed_mult > 47 * Unit
    /\ 100 * speed_mult < 153 * Unit
    /\ speed_mult > 0
    /\ (EdgeDone /\ WellFormed(handled.message))
         => published[1].axes[2] >= 0

\* the sharpest left curve taken with no flag set and speed_mult at 0.49,
\* the least it reaches: speed (0.5 / 1.5) * 0.49, still forward
C20_SlowestCurve ==
    /\ EdgeDone
    /\ WellFormed(handled.message)
    /\ handled.message.vector_count = 1
    /\ ~traffic_status.stop_sign /\ ~ramp_detected /\ ~obstacle_detected
    /\ prev_turn = TURN_MAX
    /\ 100 * speed_mult = 49 * Unit
    /\ published[1].axes[2] = Unit * speed_mult
    /\ published[1].axes[2] > 0

\* speed_mult at 1.51, the most it reaches
C20_FastestMultiplier ==
    /\ EdgeDone
    /\ 100 * speed_mult = 151 * Unit

====
